---- MODULE Spec2Model ----
(***************************************************************************)
(* State-machine model of the state charts of pleme-hooks:                 *)
(*   - the single-fetch machine  (createDataFetchMachine)                  *)
(*   - the paginated machine     (createPaginatedFetchMachine)             *)
(*     both defined in src/src/machines/dataFetch.machine.ts,              *)
(*   - the debounce machine      (src/src/machines/debounce.machine.ts),   *)
(*   - the search machine        (src/unnamed/part_003),                   *)
(*   - the infinite-scroll machine (src/unnamed/part_000).                 *)
(*                                                                         *)
(* The machines are XState v5 state charts.  One TLA+ action models one    *)
(* macrostep: the transition's actions run in their listed order, each     *)
(* assign seeing the context left by the previous one, then the entry      *)
(* actions of the target state run, then eventless (always) transitions.   *)
(* An invoked promise actor is started when its state is entered and       *)
(* stopped when that state is exited; a stopped promise actor delivers     *)
(* nothing when its promise settles.                                       *)
(***************************************************************************)
EXTENDS Integers, Sequences, FiniteSets, TLC

\* ------------------------------------------------------------------------
\* Bounds of the model
\* ------------------------------------------------------------------------
MaxRetriesCfg == 2      \* retryCount option ranges over 0..MaxRetriesCfg
MaxDelayCfg   == 1      \* retryDelay option ranges over {0, MaxDelayCfg}
MaxCacheCfg   == 2      \* cacheTime option ranges over {0, MaxCacheCfg}
MaxTime       == 3      \* Date.now() ranges over 0..MaxTime
MaxInFlight   == 2      \* promises of the fetch operation not yet settled
MaxPageLen    == 2      \* a page returned by fetchFn has 0..MaxPageLen items
MaxTotal      == 5      \* the total returned by fetchFn ranges over 0..MaxTotal
MaxItems      == 4      \* items accumulated by the paginated machine
MaxPage       == 3      \* page numbers range over 1..MaxPage
MaxLimit      == 2      \* the limit argument ranges over 1..MaxLimit
MaxDebounce   == 2      \* debounce delays range over 0..MaxDebounce

NULL    == "null"
Values  == {"A", "B", ""}      \* results of fetchFn; "" is a falsy JS value
Errors  == {"E1", "E2"}        \* rejections of fetchFn
Elems   == {"a", "b"}          \* elements of a page
NoTimer == -1

Truthy(v) == v # NULL /\ v # ""

NoCache == [present |-> FALSE, data |-> NULL, timestamp |-> 0]

VARIABLES
  \* single-fetch machine: state value and FetchContext
  state, data, error, retries, maxRetries, retryDelay, cache, cacheTime,
  \* environment of the single-fetch machine
  now,        \* Date.now()
  actors,     \* promise actors spawned by loading.invoke, by slot
  curInv,     \* slot of the actor invoked by the current loading state, 0
              \* when the state is not loading
  timerDue,   \* time at which the pending delayedRetry fires, or NoTimer
  \* observation of the single-fetch machine
  lastEvent,  \* last step: the event received, TICK or STALE
  trace,      \* states visited since the FETCH/RETRY that entered loading
  delays,     \* delays scheduled by retrying since that FETCH/RETRY
  cycleStart, \* context.retries when that FETCH/RETRY entered loading
  lastOutput, \* output or error of the last fetchData actor that delivered
  transient,  \* transient states passed through by the last step
  cancelledDue \* while idle: due time of the retry timer that the CANCEL or
              \* RESET leading here cancelled, or NoTimer

fetchCtx == <<data, error, retries, maxRetries, retryDelay, cache, cacheTime>>
fetchEnv == <<now, actors, curInv, timerDue>>
fetchObs == <<lastEvent, trace, delays, cycleStart, lastOutput, transient,
              cancelledDue>>
fetchVars == <<state, fetchCtx, fetchEnv, fetchObs>>

VARIABLES
  \* paginated machine: state value and PaginatedContext
  pState, items, total, page, limit, loading, pError, hasMore,
  \* environment of the paginated machine
  request,    \* input of the fetchPage actor in flight, or NoRequest
  \* observation of the paginated machine
  pLastEvent, \* last event the machine received
  reqVia,     \* the event that started the request in flight
  lastPage,   \* output of the last fetchPage actor whose done event arrived
  pLastFailure \* rejection of the last fetchPage actor that failed since the
              \* last RESET

pagedCtx == <<items, total, page, limit, loading, pError, hasMore>>
pagedObs == <<pLastEvent, reqVia, lastPage, pLastFailure>>
pagedVars == <<pState, pagedCtx, request, pagedObs>>

VARIABLES
  \* debounce machine: state value and DebounceContext
  dState, dValue, dDebounced, dDelay,
  \* environment of the debounce machine
  dNow,       \* the clock setTimeout runs on
  dTimers,    \* timeouts set by debounceTimer actors and not yet cleared
  \* observation of the debounce machine
  dLastEvent, \* last step: the event received or TICK
  dUpdatedAt, \* time of the last UPDATE_VALUE
  dArmedDelay, \* context.delay when the last UPDATE_VALUE was received
  dSuperseded \* values of the timers stopped by an UPDATE_VALUE since idle
              \* was left

debounceCtx == <<dValue, dDebounced, dDelay>>
debounceObs == <<dLastEvent, dUpdatedAt, dArmedDelay, dSuperseded>>
debounceVars == <<dState, debounceCtx, dNow, dTimers, debounceObs>>

VARIABLES
  \* search machine: state value and SearchContext
  sState, sQuery, sResults, sError, sDelay,
  \* environment of the search machine
  sTimer,     \* a timeout set by the debounceTimer actor is pending
  sActors,    \* performSearch actors by slot: status and input query
  \* observation of the search machine
  sLastEvent, \* last step: the event received, or STALE
  sApplied    \* input query of the last performSearch actor whose done
              \* event was taken, or NULL

searchCtx == <<sQuery, sResults, sError, sDelay>>
searchObs == <<sLastEvent, sApplied>>
searchVars == <<sState, searchCtx, sTimer, sActors, searchObs>>

VARIABLES
  \* infinite-scroll machine: state value and InfiniteScrollContext
  iState, iIsIntersecting, iHasMore, iIsLoading,
  \* environment of the infinite-scroll machine: useInfiniteScroll
  iProp,      \* the hasMore option of the hook
  iPending,   \* onLoadMore promises not yet settled
  \* observation of the infinite-scroll machine
  iLastEvent, \* last step: the event sent, PROP or REJECTED
  iNoMore     \* a NO_MORE_DATA was taken and no RESET was taken since

scrollCtx == <<iIsIntersecting, iHasMore, iIsLoading>>
scrollVars == <<iState, scrollCtx, iProp, iPending, iLastEvent, iNoMore>>

vars == <<fetchVars, pagedVars, debounceVars, searchVars, scrollVars>>

\* the variables of the machines other than the one an action belongs to
notFetch == <<pagedVars, debounceVars, searchVars, scrollVars>>
notPaged == <<fetchVars, debounceVars, searchVars, scrollVars>>
notDebounce == <<fetchVars, pagedVars, searchVars, scrollVars>>
notSearch == <<fetchVars, pagedVars, debounceVars, scrollVars>>
notScroll == <<fetchVars, pagedVars, debounceVars, searchVars>>

\* ------------------------------------------------------------------------
\* Single-fetch machine: actions, guards and delays of setup({...})
\* ------------------------------------------------------------------------

SetCachedDataNull(c) == NULL

\* setCachedData: data = context.cache?.data || null
SetCachedData(c) == IF c.present /\ Truthy(c.data) THEN c.data ELSE NULL

CacheDataWhenDisabled(ct, d, t) ==
  IF Truthy(d)
    THEN [present |-> TRUE, data |-> d, timestamp |-> t]
    ELSE NoCache

\* cacheData: cacheTime > 0 && data ? {data, timestamp: Date.now()} : null
CacheData(ct, d, t) ==
  IF ct > 0 /\ Truthy(d)
    THEN [present |-> TRUE, data |-> d, timestamp |-> t]
    ELSE NoCache

IncrementRetriesStuck(r) == r

IncrementRetriesByTwo(r) == r + 2

\* incrementRetries
IncrementRetries(r) == r + 1

CanRetryOffByOne(r, m) == r <= m

\* guard of loading.invoke.onError[0]
CanRetry(r, m) == r < m

DelayedRetryConstant(rd, r) == rd

DelayedRetryNoPlusOne(rd, r) == rd * r

\* delays.delayedRetry
DelayedRetry(rd, r) == rd * (r + 1)

CachingEnabledAlways(ct) == TRUE

\* guard of idle.on.FETCH[0]
CachingEnabled(ct) == ct > 0

\* transient states of the macrostep started by FETCH in idle
IdleFetchVia(ct) == IF CachingEnabled(ct) THEN <<"checkingCache">> ELSE <<>>

CacheFreshInclusive(c, t, ct) ==
  IF ~c.present THEN FALSE ELSE (t - c.timestamp) <= ct

\* guard of checkingCache.always[0]
CacheFresh(c, t, ct) ==
  IF ~c.present THEN FALSE ELSE (t - c.timestamp) < ct

StopInvokedKeepsRunning(acts) == acts

\* exit of a state with an invoke: the invoked actor is stopped
StopInvoked(acts) ==
  [i \in DOMAIN acts |-> IF acts[i] = "active" THEN "stopped" ELSE acts[i]]

FreeSlots == {i \in DOMAIN actors : actors[i] = "none"}

\* entry of loading: spawn fetchData in a free slot (applied to the actors
\* left by the exit of the source state)
Spawn(acts) ==
  LET i == CHOOSE j \in DOMAIN acts : acts[j] = "none" /\
                    \A k \in DOMAIN acts : acts[k] = "none" => j <= k
  IN  [acts EXCEPT ![i] = "active"]

SpawnSlot(acts) ==
  CHOOSE j \in DOMAIN acts : acts[j] = "none" /\
                    \A k \in DOMAIN acts : acts[k] = "none" => j <= k

CancelTimerKeepsPending(t) == t

\* exit of retrying: the pending delayedRetry timer is cancelled
CancelTimer(t) == NoTimer

HandlesCancelAnywhere(st, ev) ==
  CASE st = "idle"     -> ev \in {"FETCH", "RESET", "CANCEL"}
    [] st = "cached"   -> ev \in {"FETCH", "RESET", "CANCEL"}
    [] st = "loading"  -> ev \in {"CANCEL"}
    [] st = "retrying" -> ev \in {"CANCEL", "RESET"}
    [] st = "success"  -> ev \in {"FETCH", "RESET", "CANCEL"}
    [] st = "error"    -> ev \in {"RETRY", "FETCH", "RESET", "CANCEL"}

\* the events each state has a transition for
Handles(st, ev) ==
  CASE st = "idle"     -> ev \in {"FETCH", "RESET"}
    [] st = "cached"   -> ev \in {"FETCH", "RESET"}
    [] st = "loading"  -> ev \in {"CANCEL"}
    [] st = "retrying" -> ev \in {"CANCEL", "RESET"}
    [] st = "success"  -> ev \in {"FETCH", "RESET"}
    [] st = "error"    -> ev \in {"RETRY", "FETCH", "RESET"}

UserEvents == {"FETCH", "RETRY", "CANCEL", "RESET"}

FetchInit ==
  /\ state = "idle"
  /\ data = NULL
  /\ error = NULL
  /\ retries = 0
  /\ maxRetries \in 0..MaxRetriesCfg
  /\ retryDelay \in {0, MaxDelayCfg}
  /\ cache = NoCache
  /\ cacheTime \in {0, MaxCacheCfg}
  /\ now = 0
  /\ actors = [i \in 1..MaxInFlight |-> "none"]
  /\ curInv = 0
  /\ timerDue = NoTimer
  /\ lastEvent = "INIT"
  /\ trace = <<>>
  /\ delays = <<>>
  /\ cycleStart = 0
  /\ lastOutput = NULL
  /\ transient = <<>>
  /\ cancelledDue = NoTimer

\* a user event enters loading with context.retries = r
StartCycle(r) ==
  /\ FreeSlots # {}
  /\ state' = "loading"
  /\ actors' = Spawn(actors)
  /\ curInv' = SpawnSlot(actors)
  /\ timerDue' = NoTimer
  /\ trace' = <<"loading">>
  /\ delays' = <<>>
  /\ cycleStart' = r
  /\ cancelledDue' = NoTimer
  /\ UNCHANGED <<now, lastOutput, maxRetries, retryDelay, cacheTime>>

\* the assignable fields of FetchContext
Ctx == [data |-> data, error |-> error, retries |-> retries, cache |-> cache]

ApplyCtx(c) ==
  /\ data' = c.data
  /\ error' = c.error
  /\ retries' = c.retries
  /\ cache' = c.cache

\* setData (event.output is the resolved value)
SetData(c, v) == [c EXCEPT !.data = v, !.error = NULL]

SetErrorDropsData(c, e) == [c EXCEPT !.error = e, !.data = NULL]

\* setError (event.error is the rejection)
SetError(c, e) == [c EXCEPT !.error = e]

\* cacheData, as an assign on the context left by the previous action
AssignCacheData(c) == [c EXCEPT !.cache = CacheData(cacheTime, c.data, now)]

ClearCacheKeepsEntry(c) == c

\* clearCache
ClearCache(c) == [c EXCEPT !.cache = NoCache]

\* incrementRetries, as an assign
AssignIncrementRetries(c) ==
  [c EXCEPT !.retries = IncrementRetries(c.retries)]

ResetRetriesKeepsCount(c) == c

ResetRetriesAndError(c) == [c EXCEPT !.retries = 0, !.error = NULL]

\* resetRetries
ResetRetries(c) == [c EXCEPT !.retries = 0]

\* idle.on.FETCH, then checkingCache.always, then cached.entry
FetchIdle ==
  /\ state = "idle"
  /\ lastEvent' = "FETCH"
  /\ transient' = IdleFetchVia(cacheTime)
  /\ IF CachingEnabled(cacheTime) /\ CacheFresh(cache, now, cacheTime)
       THEN /\ state' = "cached"
            /\ data' = SetCachedData(cache)
            /\ error' = NULL
            /\ trace' = <<>>
            /\ delays' = <<>>
            /\ cancelledDue' = NoTimer
            /\ UNCHANGED <<retries, cache, maxRetries, retryDelay, cacheTime,
                           fetchEnv, cycleStart, lastOutput>>
       ELSE /\ StartCycle(retries)
            /\ UNCHANGED <<data, error, retries, cache>>

\* cached.on.FETCH
FetchCached ==
  /\ state = "cached"
  /\ lastEvent' = "FETCH"
  /\ transient' = <<>>
  /\ ApplyCtx(ClearCache(Ctx))
  /\ StartCycle(retries')

\* success.on.FETCH
FetchSuccess ==
  /\ state = "success"
  /\ lastEvent' = "FETCH"
  /\ transient' = <<>>
  /\ StartCycle(retries)
  /\ UNCHANGED <<data, error, retries, cache>>

\* error.on.RETRY and error.on.FETCH
RetryOrFetchError(ev) ==
  /\ state = "error"
  /\ ev \in {"RETRY", "FETCH"}
  /\ lastEvent' = ev
  /\ transient' = <<>>
  /\ ApplyCtx(ResetRetries(Ctx))
  /\ StartCycle(retries')

\* loading.on.CANCEL and retrying.on.CANCEL
Cancel ==
  /\ Handles(state, "CANCEL")
  /\ lastEvent' = "CANCEL"
  /\ transient' = <<>>
  /\ state' = "idle"
  /\ actors' = StopInvoked(actors)
  /\ timerDue' = CancelTimer(timerDue)
  /\ cancelledDue' = IF state = "retrying" THEN timerDue ELSE NoTimer
  /\ trace' = <<>>
  /\ delays' = <<>>
  /\ curInv' = 0
  /\ UNCHANGED <<fetchCtx, now, cycleStart, lastOutput>>

\* RESET in idle, cached, retrying, success and error (resetContext)
Reset ==
  /\ Handles(state, "RESET")
  /\ lastEvent' = "RESET"
  /\ transient' = <<>>
  /\ state' = "idle"
  /\ data' = NULL
  /\ error' = NULL
  /\ retries' = 0
  /\ cache' = NoCache
  /\ timerDue' = CancelTimer(timerDue)
  /\ cancelledDue' = IF state = "retrying" THEN timerDue
                     ELSE IF state = "idle" THEN cancelledDue ELSE NoTimer
  /\ trace' = <<>>
  /\ delays' = <<>>
  /\ UNCHANGED <<maxRetries, retryDelay, cacheTime, now, actors, curInv,
                 cycleStart, lastOutput>>

\* an event the current state has no transition for is dropped
Ignored(ev) ==
  /\ ev \in UserEvents
  /\ ~Handles(state, ev)
  /\ lastEvent' = ev
  /\ transient' = <<>>
  /\ UNCHANGED <<state, fetchCtx, fetchEnv, trace, delays, cycleStart,
                 lastOutput, cancelledDue>>

\* loading.invoke.onDone: setData, cacheData, resetRetries
Done(i, v) ==
  /\ actors[i] = "active"
  /\ state = "loading"
  /\ lastEvent' = "DONE"
  /\ state' = "success"
  /\ ApplyCtx(ResetRetries(AssignCacheData(SetData(Ctx, v))))
  /\ actors' = [actors EXCEPT ![i] = "none"]
  /\ trace' = IF trace = <<>> THEN trace ELSE Append(trace, "success")
  /\ lastOutput' = v
  /\ transient' = <<>>
  /\ curInv' = 0
  /\ UNCHANGED <<maxRetries, retryDelay, cacheTime, now, timerDue,
                 delays, cycleStart, cancelledDue>>

\* loading.invoke.onError
Failed(i, e) ==
  /\ actors[i] = "active"
  /\ state = "loading"
  /\ lastEvent' = "ERROR"
  /\ actors' = [actors EXCEPT ![i] = "none"]
  /\ lastOutput' = e
  /\ transient' = <<>>
  /\ IF CanRetry(retries, maxRetries)
       THEN /\ state' = "retrying"
            /\ ApplyCtx(AssignIncrementRetries(Ctx))
            /\ timerDue' = now + DelayedRetry(retryDelay, retries')
            /\ delays' = Append(delays, DelayedRetry(retryDelay, retries'))
            /\ trace' = IF trace = <<>> THEN trace
                                        ELSE Append(trace, "retrying")
       ELSE /\ state' = "error"
            /\ ApplyCtx(SetError(Ctx, e))
            /\ trace' = IF trace = <<>> THEN trace ELSE Append(trace, "error")
            /\ UNCHANGED <<timerDue, delays>>
  /\ curInv' = 0
  /\ UNCHANGED <<maxRetries, retryDelay, cacheTime, now, cycleStart,
                 cancelledDue>>

\* the promise of a stopped actor settles: nothing is delivered
Stale(i) ==
  /\ actors[i] = "stopped" \/ (actors[i] = "active" /\ state # "loading")
  /\ actors' = [actors EXCEPT ![i] = "none"]
  /\ lastEvent' = "STALE"
  /\ transient' = <<>>
  /\ UNCHANGED <<state, fetchCtx, now, curInv, timerDue, trace, delays,
                 cycleStart, lastOutput, cancelledDue>>

\* retrying.after.delayedRetry
TimerFire ==
  /\ state = "retrying"
  /\ timerDue # NoTimer
  /\ now >= timerDue
  /\ FreeSlots # {}
  /\ lastEvent' = "TIMER"
  /\ state' = "loading"
  /\ actors' = Spawn(actors)
  /\ curInv' = SpawnSlot(actors)
  /\ timerDue' = NoTimer
  /\ trace' = IF trace = <<>> THEN trace ELSE Append(trace, "loading")
  /\ transient' = <<>>
  /\ UNCHANGED <<fetchCtx, now, delays, cycleStart, lastOutput, cancelledDue>>

\* time passes
Tick ==
  /\ now < MaxTime
  /\ now' = now + 1
  /\ lastEvent' = "TICK"
  /\ transient' = <<>>
  /\ UNCHANGED <<state, fetchCtx, actors, curInv, timerDue, trace, delays,
                 cycleStart, lastOutput, cancelledDue>>

FetchNext ==
  \/ FetchIdle /\ UNCHANGED notFetch
  \/ FetchCached /\ UNCHANGED notFetch
  \/ FetchSuccess /\ UNCHANGED notFetch
  \/ \E ev \in {"RETRY", "FETCH"} : RetryOrFetchError(ev) /\ UNCHANGED notFetch
  \/ Cancel /\ UNCHANGED notFetch
  \/ Reset /\ UNCHANGED notFetch
  \/ \E ev \in UserEvents : Ignored(ev) /\ UNCHANGED notFetch
  \/ \E i \in 1..MaxInFlight, v \in Values : Done(i, v) /\ UNCHANGED notFetch
  \/ \E i \in 1..MaxInFlight, e \in Errors : Failed(i, e) /\ UNCHANGED notFetch
  \/ \E i \in 1..MaxInFlight : Stale(i) /\ UNCHANGED notFetch
  \/ TimerFire /\ UNCHANGED notFetch
  \/ Tick /\ UNCHANGED notFetch

\* ------------------------------------------------------------------------
\* Paginated machine
\* ------------------------------------------------------------------------
NoRequest == [page |-> 0, limit |-> 0]
NoPage    == [items |-> <<>>, total |-> 0]

\* pages fetchFn can return: up to MaxPageLen elements and a total
PageItems == UNION {[1..n -> Elems] : n \in 0..MaxPageLen}
Pages     == [items : PageItems, total : 0..MaxTotal]

\* setPage
SetPage(ev, n) == IF ev = "LOAD_PAGE" THEN n ELSE 1

\* incrementPage
IncrementPage(p) == p + 1

AppendItemsInFront(its, p, out) ==
  IF p = 1 THEN out.items ELSE out.items \o its

AppendItemsAlways(its, p, out) == its \o out.items

\* appendItems (event.output is the resolved {items, total})
AppendItems(its, p, out) == IF p = 1 THEN out.items ELSE its \o out.items

\* updatePagination.total
UpdateTotal(out) == out.total

\* updatePagination.hasMore; its is context.items when the action runs
UpdateHasMore(its, out) == Len(its) + Len(out.items) < out.total

CanLoadMoreIdleAlways(hm, ld) == TRUE

\* guard of idle.on.LOAD_MORE
CanLoadMoreIdle(hm, ld) == hm /\ ~ld

\* setErrorState (event.error is the rejection)
SetErrorState(e) == e

ClearLoadingStuck(ld) == ld

\* clearLoading
ClearLoading(ld) == FALSE

CanLoadMoreErrorAlways(hm) == TRUE

\* guard of error.on.LOAD_MORE
CanLoadMoreError(hm) == hm

SetLoadingNot(ld) == ld

\* setLoading
SetLoading(ld) == TRUE

PagedInit ==
  /\ pState = "idle"
  /\ items = <<>>
  /\ total = 0
  /\ page = 1
  /\ limit \in 1..MaxLimit
  /\ loading = FALSE
  /\ pError = NULL
  /\ hasMore = TRUE
  /\ request = NoRequest
  /\ pLastEvent = "INIT"
  /\ reqVia = "NONE"
  /\ lastPage = NoPage
  /\ pLastFailure = NULL

\* entry of loading: setLoading, then invoke fetchPage with (page, limit)
EnterPageLoading(p, via) ==
  /\ pState' = "loading"
  /\ loading' = SetLoading(loading)
  /\ request' = [page |-> p, limit |-> limit]
  /\ reqVia' = via

PagedEvents == {"LOAD_PAGE", "LOAD_MORE", "RESET"}

PagedHandlesWhileLoading(st, ev) == ev \in PagedEvents

\* the events each state of the paginated machine has a transition for
PagedHandles(st, ev) ==
  CASE st = "idle"    -> ev \in {"LOAD_PAGE", "LOAD_MORE", "RESET"}
    [] st = "loading" -> FALSE
    [] st = "error"   -> ev \in {"LOAD_PAGE", "LOAD_MORE", "RESET"}

\* idle.on.LOAD_PAGE and error.on.LOAD_PAGE
LoadPage(n) ==
  /\ PagedHandles(pState, "LOAD_PAGE")
  /\ pLastEvent' = "LOAD_PAGE"
  /\ page' = SetPage("LOAD_PAGE", n)
  /\ EnterPageLoading(page', "LOAD_PAGE")
  /\ UNCHANGED <<items, total, limit, pError, hasMore, lastPage, pLastFailure>>

\* idle.on.LOAD_MORE
LoadMoreIdle ==
  /\ pState = "idle"
  /\ CanLoadMoreIdle(hasMore, loading)
  /\ page < MaxPage
  /\ pLastEvent' = "LOAD_MORE"
  /\ page' = IncrementPage(page)
  /\ EnterPageLoading(page', "LOAD_MORE")
  /\ UNCHANGED <<items, total, limit, pError, hasMore, lastPage, pLastFailure>>

\* error.on.LOAD_MORE
LoadMoreError ==
  /\ pState = "error"
  /\ CanLoadMoreError(hasMore)
  /\ pLastEvent' = "LOAD_MORE"
  /\ EnterPageLoading(page, "LOAD_MORE")
  /\ UNCHANGED <<items, total, page, limit, pError, hasMore, lastPage,
                 pLastFailure>>

\* idle.on.RESET and error.on.RESET (resetPaginationContext)
PagedReset ==
  /\ PagedHandles(pState, "RESET")
  /\ pLastEvent' = "RESET"
  /\ pState' = "idle"
  /\ items' = <<>>
  /\ total' = 0
  /\ page' = 1
  /\ loading' = FALSE
  /\ pError' = NULL
  /\ hasMore' = TRUE
  /\ pLastFailure' = NULL
  /\ UNCHANGED <<limit, request, reqVia, lastPage>>

\* an event with no enabled transition in the current state is dropped
PagedIgnored(ev) ==
  /\ ev \in PagedEvents
  /\ \/ ~PagedHandles(pState, ev)
     \/ ev = "LOAD_MORE" /\ pState = "idle" /\ ~CanLoadMoreIdle(hasMore, loading)
     \/ ev = "LOAD_MORE" /\ pState = "error" /\ ~CanLoadMoreError(hasMore)
  /\ pLastEvent' = ev
  /\ UNCHANGED <<pState, pagedCtx, request, reqVia, lastPage, pLastFailure>>

\* loading.invoke.onDone: appendItems, updatePagination, clearLoading
PageDone(out) ==
  /\ pState = "loading"
  /\ Len(AppendItems(items, page, out)) <= MaxItems
  /\ pLastEvent' = "DONE"
  /\ pState' = "idle"
  /\ items' = AppendItems(items, page, out)
  /\ total' = UpdateTotal(out)
  /\ hasMore' = UpdateHasMore(items', out)
  /\ loading' = ClearLoading(loading)
  /\ request' = NoRequest
  /\ lastPage' = out
  /\ UNCHANGED <<page, limit, pError, reqVia, pLastFailure>>

\* loading.invoke.onError: setErrorState, clearLoading
PageFailed(e) ==
  /\ pState = "loading"
  /\ pLastEvent' = "ERROR"
  /\ pState' = "error"
  /\ pError' = SetErrorState(e)
  /\ pLastFailure' = e
  /\ loading' = ClearLoading(loading)
  /\ request' = NoRequest
  /\ UNCHANGED <<items, total, page, limit, hasMore, reqVia, lastPage>>

PagedNext ==
  \/ \E n \in 1..MaxPage : LoadPage(n) /\ UNCHANGED notPaged
  \/ LoadMoreIdle /\ UNCHANGED notPaged
  \/ LoadMoreError /\ UNCHANGED notPaged
  \/ PagedReset /\ UNCHANGED notPaged
  \/ \E ev \in PagedEvents : PagedIgnored(ev) /\ UNCHANGED notPaged
  \/ \E out \in Pages : PageDone(out) /\ UNCHANGED notPaged
  \/ \E e \in Errors : PageFailed(e) /\ UNCHANGED notPaged

\* ------------------------------------------------------------------------
\* Debounce machine (createDebounceMachine)
\* ------------------------------------------------------------------------
Texts == {"", "x", "y"}        \* values handed to the debounce machine and
                               \* queries handed to the search machine

\* debounceTimer: setTimeout(() => sendBack(DEBOUNCED_UPDATE, value), delay)
StartTimer(ts, v, d, t) == ts \cup {[value |-> v, due |-> t + d]}

StopTimerKeepsPending(ts) == ts

\* cleanup of debounceTimer, run when debouncing is exited: clearTimeout
StopTimer(ts) == {}

\* createMachine context: value = debouncedValue = initialValue
DebounceInit ==
  /\ dState = "idle"
  /\ dValue \in Texts
  /\ dDebounced = dValue
  /\ dDelay \in 0..MaxDebounce
  /\ dNow = 0
  /\ dTimers = {}
  /\ dLastEvent = "INIT"
  /\ dUpdatedAt = 0
  /\ dArmedDelay = dDelay
  /\ dSuperseded = {}

\* idle.on.UPDATE_VALUE: updateValue, then debouncing invokes debounceTimer
\* with the value and the delay of the updated context
UpdateValueIdle(v) ==
  /\ dState = "idle"
  /\ dState' = "debouncing"
  /\ dValue' = v
  /\ dTimers' = StartTimer(dTimers, v, dDelay, dNow)
  /\ dLastEvent' = "UPDATE_VALUE"
  /\ dUpdatedAt' = dNow
  /\ dArmedDelay' = dDelay
  /\ dSuperseded' = {}
  /\ UNCHANGED <<dDebounced, dDelay, dNow>>

\* debouncing.on.UPDATE_VALUE with reenter: the state is exited (the running
\* debounceTimer is stopped) and entered again (a new one is invoked)
UpdateValueDebouncing(v) ==
  /\ dState = "debouncing"
  /\ dState' = "debouncing"
  /\ dValue' = v
  /\ dTimers' = StartTimer(StopTimer(dTimers), v, dDelay, dNow)
  /\ dLastEvent' = "UPDATE_VALUE"
  /\ dUpdatedAt' = dNow
  /\ dArmedDelay' = dDelay
  /\ dSuperseded' = dSuperseded \cup {t.value : t \in dTimers}
  /\ UNCHANGED <<dDebounced, dDelay, dNow>>

\* on.SET_DELAY of idle and of debouncing: setDelay; no target, so a running
\* debounceTimer keeps the delay it was started with
DebounceSetDelay(d) ==
  /\ dDelay' = d
  /\ dLastEvent' = "SET_DELAY"
  /\ UNCHANGED <<dState, dValue, dDebounced, dNow, dTimers, dUpdatedAt,
                 dArmedDelay, dSuperseded>>

\* a timeout expires and its callback sends DEBOUNCED_UPDATE with the value
\* it was started with; debouncing.on.DEBOUNCED_UPDATE: updateDebouncedValue,
\* target idle (debouncing is exited); idle has no transition for the event
DebouncedUpdate ==
  \E t \in dTimers :
    /\ dNow >= t.due
    /\ dLastEvent' = "DEBOUNCED_UPDATE"
    /\ IF dState = "debouncing"
         THEN /\ dState' = "idle"
              /\ dDebounced' = t.value
              /\ dTimers' = StopTimer(dTimers \ {t})
         ELSE /\ dTimers' = dTimers \ {t}
              /\ UNCHANGED <<dState, dDebounced>>
    /\ UNCHANGED <<dValue, dDelay, dNow, dUpdatedAt, dArmedDelay,
                   dSuperseded>>

\* time passes
DebounceTick ==
  /\ dNow < MaxTime
  /\ dNow' = dNow + 1
  /\ dLastEvent' = "TICK"
  /\ UNCHANGED <<dState, debounceCtx, dTimers, dUpdatedAt, dArmedDelay,
                 dSuperseded>>

DebounceNext ==
  \/ \E v \in Texts : UpdateValueIdle(v) /\ UNCHANGED notDebounce
  \/ \E v \in Texts : UpdateValueDebouncing(v) /\ UNCHANGED notDebounce
  \/ \E d \in 0..MaxDebounce : DebounceSetDelay(d) /\ UNCHANGED notDebounce
  \/ DebouncedUpdate /\ UNCHANGED notDebounce
  \/ DebounceTick /\ UNCHANGED notDebounce

\* a debounce machine nobody uses
DebounceAtRest ==
  /\ DebounceInit
  /\ dValue = ""
  /\ dDelay = 0

\* ------------------------------------------------------------------------
\* Search machine (createSearchMachine)
\* ------------------------------------------------------------------------
\* results of searchFn
SearchOutputs == {<<>>} \cup {<<e>> : e \in Elems}

\* rejections of searchFn: a string, or a value of another type
SearchFailures == {[string |-> TRUE, text |-> "E1"],
                   [string |-> FALSE, text |-> "E2"]}

NoSearch == [status |-> "none", query |-> ""]

\* the guard of idle / debouncing .on.UPDATE_QUERY: event.query.length > 0
NonEmpty(q) == q # ""

\* setError: error = event.error if it is a string, else 'Search error'
SetSearchError(e) == IF e.string THEN e.text ELSE "Search error"

StopSearchKeepsRunning(acts) == acts

\* exit of searching: the invoked performSearch actor is stopped
StopSearch(acts) ==
  [i \in DOMAIN acts |->
     IF acts[i].status = "active"
       THEN [acts[i] EXCEPT !.status = "stopped"]
       ELSE acts[i]]

\* entry of searching: performSearch is invoked with input.query = q
StartSearch(acts, q) ==
  LET i == CHOOSE j \in DOMAIN acts :
             /\ acts[j].status = "none"
             /\ \A k \in DOMAIN acts : acts[k].status = "none" => j <= k
  IN  [acts EXCEPT ![i] = [status |-> "active", query |-> q]]

SearchHandles(st, ev) ==
  CASE st = "idle"       -> ev \in {"UPDATE_QUERY", "SET_DELAY"}
    [] st = "debouncing" -> ev \in {"UPDATE_QUERY", "SEARCH", "SET_DELAY"}
    [] st = "searching"  -> ev \in {"UPDATE_QUERY"}
    [] st = "error"      -> ev \in {"UPDATE_QUERY", "CLEAR"}

\* events sent from outside; SEARCH is sent by the debounceTimer actor
SearchEvents == {"CLEAR", "SET_DELAY"}

\* createMachine context
SearchInit ==
  /\ sState = "idle"
  /\ sQuery = ""
  /\ sResults = <<>>
  /\ sError = NULL
  /\ sDelay \in 0..MaxDebounce
  /\ sTimer = FALSE
  /\ sActors = [i \in 1..MaxInFlight |-> NoSearch]
  /\ sLastEvent = "INIT"
  /\ sApplied = NULL

\* idle.on.UPDATE_QUERY and debouncing.on.UPDATE_QUERY: with a non-empty
\* query, updateQuery and (re-)entry of debouncing, which stops the running
\* debounceTimer and invokes a new one; else updateQuery, clearResults, idle
UpdateQueryGuarded(q) ==
  /\ sState \in {"idle", "debouncing"}
  /\ sQuery' = q
  /\ IF NonEmpty(q)
       THEN /\ sState' = "debouncing"
            /\ sTimer' = TRUE
            /\ UNCHANGED sResults
       ELSE /\ sState' = "idle"
            /\ sTimer' = FALSE
            /\ sResults' = <<>>
  /\ sLastEvent' = "UPDATE_QUERY"
  /\ UNCHANGED <<sError, sDelay, sActors, sApplied>>

\* searching.on.UPDATE_QUERY: updateQuery, target debouncing; searching is
\* exited, so performSearch is stopped
UpdateQuerySearching(q) ==
  /\ sState = "searching"
  /\ sState' = "debouncing"
  /\ sQuery' = q
  /\ sActors' = StopSearch(sActors)
  /\ sTimer' = TRUE
  /\ sLastEvent' = "UPDATE_QUERY"
  /\ UNCHANGED <<sResults, sError, sDelay, sApplied>>

\* error.on.UPDATE_QUERY: updateQuery, clearError, target debouncing
UpdateQueryError(q) ==
  /\ sState = "error"
  /\ sState' = "debouncing"
  /\ sQuery' = q
  /\ sError' = NULL
  /\ sTimer' = TRUE
  /\ sLastEvent' = "UPDATE_QUERY"
  /\ UNCHANGED <<sResults, sDelay, sActors, sApplied>>

\* the timeout expires and sends SEARCH; debouncing.on.SEARCH: target
\* searching, which invokes performSearch with the query of the context
Search ==
  /\ sState = "debouncing"
  /\ sTimer
  /\ \E i \in DOMAIN sActors : sActors[i].status = "none"
  /\ sState' = "searching"
  /\ sTimer' = FALSE
  /\ sActors' = StartSearch(sActors, sQuery)
  /\ sLastEvent' = "SEARCH"
  /\ UNCHANGED <<searchCtx, sApplied>>

\* searching.invoke.onDone: setResults, target idle
SearchDone(i, out) ==
  /\ sState = "searching"
  /\ sActors[i].status = "active"
  /\ sState' = "idle"
  /\ sResults' = out
  /\ sError' = NULL
  /\ sActors' = [sActors EXCEPT ![i] = NoSearch]
  /\ sLastEvent' = "DONE"
  /\ sApplied' = sActors[i].query
  /\ UNCHANGED <<sQuery, sDelay, sTimer>>

\* searching.invoke.onError: setError, target error
SearchFailed(i, e) ==
  /\ sState = "searching"
  /\ sActors[i].status = "active"
  /\ sState' = "error"
  /\ sError' = SetSearchError(e)
  /\ sResults' = <<>>
  /\ sActors' = [sActors EXCEPT ![i] = NoSearch]
  /\ sLastEvent' = "ERROR"
  /\ UNCHANGED <<sQuery, sDelay, sTimer, sApplied>>

\* the promise of a stopped performSearch actor settles: nothing is delivered
SearchStale(i) ==
  /\ sActors[i].status = "stopped"
  /\ sActors' = [sActors EXCEPT ![i] = NoSearch]
  /\ sLastEvent' = "STALE"
  /\ UNCHANGED <<sState, searchCtx, sTimer, sApplied>>

\* error.on.CLEAR: clearAll, target idle
SearchClear ==
  /\ sState = "error"
  /\ sState' = "idle"
  /\ sQuery' = ""
  /\ sResults' = <<>>
  /\ sError' = NULL
  /\ sLastEvent' = "CLEAR"
  /\ UNCHANGED <<sDelay, sTimer, sActors, sApplied>>

\* on.SET_DELAY of idle and of debouncing: setDelay
SearchSetDelay(d) ==
  /\ SearchHandles(sState, "SET_DELAY")
  /\ sDelay' = d
  /\ sLastEvent' = "SET_DELAY"
  /\ UNCHANGED <<sState, sQuery, sResults, sError, sTimer, sActors, sApplied>>

\* an event the current state has no transition for is dropped
SearchIgnored(ev) ==
  /\ ~SearchHandles(sState, ev)
  /\ sLastEvent' = ev
  /\ UNCHANGED <<sState, searchCtx, sTimer, sActors, sApplied>>

SearchNext ==
  \/ \E q \in Texts : UpdateQueryGuarded(q) /\ UNCHANGED notSearch
  \/ \E q \in Texts : UpdateQuerySearching(q) /\ UNCHANGED notSearch
  \/ \E q \in Texts : UpdateQueryError(q) /\ UNCHANGED notSearch
  \/ Search /\ UNCHANGED notSearch
  \/ \E i \in 1..MaxInFlight, out \in SearchOutputs :
        SearchDone(i, out) /\ UNCHANGED notSearch
  \/ \E i \in 1..MaxInFlight, e \in SearchFailures :
        SearchFailed(i, e) /\ UNCHANGED notSearch
  \/ \E i \in 1..MaxInFlight : SearchStale(i) /\ UNCHANGED notSearch
  \/ SearchClear /\ UNCHANGED notSearch
  \/ \E d \in 0..MaxDebounce : SearchSetDelay(d) /\ UNCHANGED notSearch
  \/ \E ev \in SearchEvents : SearchIgnored(ev) /\ UNCHANGED notSearch

\* a search machine nobody uses
SearchAtRest ==
  /\ SearchInit
  /\ sDelay = 0

\* ------------------------------------------------------------------------
\* Infinite-scroll machine (infiniteScrollMachine) driven by useInfiniteScroll
\* ------------------------------------------------------------------------
EnterIdleKeepsLoading(l) == l

\* idle.entry: isLoading = false
EnterIdle(l) == FALSE

\* loading.entry: isLoading = true
EnterLoading(l) == TRUE

\* the guard of intersecting.on.LOAD_MORE
CanLoadMoreScroll(h, l) == h /\ ~l

ScrollHandles(st, ev) ==
  CASE st = "idle"         -> ev \in {"INTERSECTING", "RESET"}
    [] st = "intersecting" -> ev \in {"NOT_INTERSECTING", "LOAD_MORE"}
    [] st = "loading"      -> ev \in {"LOADED", "NO_MORE_DATA"}
    [] st = "completed"    -> ev \in {"RESET"}

\* events the observer callback and reset() send
ScrollEvents == {"INTERSECTING", "NOT_INTERSECTING", "LOAD_MORE", "RESET"}

\* createMachine context, idle.entry; the hook's hasMore option
ScrollInit ==
  /\ iState = "idle"
  /\ iIsIntersecting = FALSE
  /\ iHasMore = TRUE
  /\ iIsLoading = EnterIdle(FALSE)
  /\ iProp \in BOOLEAN
  /\ iPending = 0
  /\ iLastEvent = "INIT"
  /\ iNoMore = FALSE

\* idle.on.INTERSECTING: isIntersecting = true, intersecting.entry
ScrollIntersecting ==
  /\ iState = "idle"
  /\ iState' = "intersecting"
  /\ iIsIntersecting' = TRUE
  /\ iLastEvent' = "INTERSECTING"
  /\ UNCHANGED <<iHasMore, iIsLoading, iProp, iPending, iNoMore>>

\* intersecting.on.NOT_INTERSECTING: isIntersecting = false, idle.entry
ScrollNotIntersecting ==
  /\ iState = "intersecting"
  /\ iState' = "idle"
  /\ iIsIntersecting' = FALSE
  /\ iIsLoading' = EnterIdle(iIsLoading)
  /\ iLastEvent' = "NOT_INTERSECTING"
  /\ UNCHANGED <<iHasMore, iProp, iPending, iNoMore>>

\* intersecting.on.LOAD_MORE under its guard, loading.entry; the hook's
\* effect calls onLoadMore when the machine is in loading
ScrollLoadMore ==
  /\ iState = "intersecting"
  /\ CanLoadMoreScroll(iHasMore, iIsLoading)
  /\ iPending < MaxInFlight
  /\ iState' = "loading"
  /\ iIsLoading' = EnterLoading(iIsLoading)
  /\ iPending' = iPending + 1
  /\ iLastEvent' = "LOAD_MORE"
  /\ UNCHANGED <<iIsIntersecting, iHasMore, iProp, iNoMore>>

\* an onLoadMore promise resolves and the hook sends LOADED;
\* loading.on.LOADED: target idle, idle.entry; other states drop the event
ScrollLoaded ==
  /\ iPending > 0
  /\ iPending' = iPending - 1
  /\ iLastEvent' = "LOADED"
  /\ IF ScrollHandles(iState, "LOADED")
       THEN /\ iState' = "idle"
            /\ iIsLoading' = EnterIdle(iIsLoading)
       ELSE UNCHANGED <<iState, iIsLoading>>
  /\ UNCHANGED <<iIsIntersecting, iHasMore, iProp, iNoMore>>

\* an onLoadMore promise rejects: the hook sends nothing
ScrollLoadRejected ==
  /\ iPending > 0
  /\ iPending' = iPending - 1
  /\ iLastEvent' = "REJECTED"
  /\ UNCHANGED <<iState, scrollCtx, iProp, iNoMore>>

\* the hasMore option changes; when it becomes false the hook sends
\* NO_MORE_DATA; loading.on.NO_MORE_DATA: hasMore = false, completed.entry;
\* other states drop the event
ScrollHasMoreProp(b) ==
  /\ iProp # b
  /\ iProp' = b
  /\ IF b
       THEN /\ iLastEvent' = "PROP"
            /\ UNCHANGED <<iState, scrollCtx, iNoMore>>
       ELSE /\ iLastEvent' = "NO_MORE_DATA"
            /\ IF ScrollHandles(iState, "NO_MORE_DATA")
                 THEN /\ iState' = "completed"
                      /\ iHasMore' = FALSE
                      /\ iIsLoading' = FALSE
                      /\ iNoMore' = TRUE
                      /\ UNCHANGED iIsIntersecting
                 ELSE UNCHANGED <<iState, scrollCtx, iNoMore>>
  /\ UNCHANGED iPending

\* idle.on.RESET and completed.on.RESET: hasMore = true, isIntersecting =
\* false, isLoading = false, target idle
ScrollReset ==
  /\ iState \in {"idle", "completed"}
  /\ iState' = "idle"
  /\ iHasMore' = TRUE
  /\ iIsIntersecting' = FALSE
  /\ iIsLoading' = FALSE
  /\ iNoMore' = FALSE
  /\ iLastEvent' = "RESET"
  /\ UNCHANGED <<iProp, iPending>>

\* an event the current state has no enabled transition for is dropped
ScrollIgnored(ev) ==
  /\ \/ ~ScrollHandles(iState, ev)
     \/ /\ ev = "LOAD_MORE"
        /\ iState = "intersecting"
        /\ ~CanLoadMoreScroll(iHasMore, iIsLoading)
  /\ iLastEvent' = ev
  /\ UNCHANGED <<iState, scrollCtx, iProp, iPending, iNoMore>>

ScrollNext ==
  \/ ScrollIntersecting /\ UNCHANGED notScroll
  \/ ScrollNotIntersecting /\ UNCHANGED notScroll
  \/ ScrollLoadMore /\ UNCHANGED notScroll
  \/ ScrollLoaded /\ UNCHANGED notScroll
  \/ ScrollLoadRejected /\ UNCHANGED notScroll
  \/ \E b \in BOOLEAN : ScrollHasMoreProp(b) /\ UNCHANGED notScroll
  \/ ScrollReset /\ UNCHANGED notScroll
  \/ \E ev \in ScrollEvents : ScrollIgnored(ev) /\ UNCHANGED notScroll

\* an infinite-scroll machine nobody uses
ScrollAtRest ==
  /\ ScrollInit
  /\ iProp = TRUE

\* a single-fetch machine under check, beside a paginated machine at rest
FetchSpecInit ==
  /\ FetchInit
  /\ PagedInit
  /\ limit = MaxLimit
  /\ DebounceAtRest
  /\ SearchAtRest
  /\ ScrollAtRest

\* a paginated machine under check, beside a single-fetch machine at rest
PagedSpecInit ==
  /\ PagedInit
  /\ FetchInit
  /\ maxRetries = 0
  /\ retryDelay = 0
  /\ cacheTime = 0
  /\ DebounceAtRest
  /\ SearchAtRest
  /\ ScrollAtRest

\* a debounce machine under check, beside fetch machines at rest
DebounceSpecInit ==
  /\ DebounceInit
  /\ FetchInit
  /\ maxRetries = 0
  /\ retryDelay = 0
  /\ cacheTime = 0
  /\ PagedInit
  /\ limit = MaxLimit
  /\ SearchAtRest
  /\ ScrollAtRest

\* a search machine under check, beside the other machines at rest
SearchSpecInit ==
  /\ SearchInit
  /\ FetchInit
  /\ maxRetries = 0
  /\ retryDelay = 0
  /\ cacheTime = 0
  /\ PagedInit
  /\ limit = MaxLimit
  /\ DebounceAtRest
  /\ ScrollAtRest

\* an infinite-scroll machine under check, beside the other machines at rest
ScrollSpecInit ==
  /\ ScrollInit
  /\ FetchInit
  /\ maxRetries = 0
  /\ retryDelay = 0
  /\ cacheTime = 0
  /\ PagedInit
  /\ limit = MaxLimit
  /\ DebounceAtRest
  /\ SearchAtRest

FetchSpec == FetchSpecInit /\ [][FetchNext]_vars

PagedSpec == PagedSpecInit /\ [][PagedNext]_vars

DebounceSpec == DebounceSpecInit /\ [][DebounceNext]_vars

SearchSpec == SearchSpecInit /\ [][SearchNext]_vars

ScrollSpec == ScrollSpecInit /\ [][ScrollNext]_vars

\* ------------------------------------------------------------------------
\* The paginated machine in front of a fixed data set: fetchFn(p, limit)
\* resolves with the one item of page p and the size of the data set
\* ------------------------------------------------------------------------
DatasetPage(p) == [items |-> <<ToString(p)>>, total |-> MaxPage]

PagedDatasetNext ==
  \/ \E n \in 1..MaxPage : LoadPage(n) /\ UNCHANGED notPaged
  \/ LoadMoreIdle /\ UNCHANGED notPaged
  \/ LoadMoreError /\ UNCHANGED notPaged
  \/ PagedReset /\ UNCHANGED notPaged
  \/ \E ev \in PagedEvents : PagedIgnored(ev) /\ UNCHANGED notPaged
  \/ PageDone(DatasetPage(request.page)) /\ UNCHANGED notPaged
  \/ \E e \in Errors : PageFailed(e) /\ UNCHANGED notPaged

PagedDatasetSpec == PagedSpecInit /\ [][PagedDatasetNext]_vars

\* ------------------------------------------------------------------------
\* The single-fetch machine with a user who sends events only at time 0,
\* promises that eventually settle and timers that eventually fire
\* ------------------------------------------------------------------------

\* the user still sends events
UserActive == now = 0

\* what a promise settles with has no part in whether the machine comes to
\* rest: one truthy result, the falsy one and one rejection are kept
LiveValues == {"A", ""}
LiveErrors == {"E1"}

\* a promise of the fetch operation settles
Settle ==
  \E i \in 1..MaxInFlight :
    \/ \E v \in LiveValues : Done(i, v)
    \/ \E e \in LiveErrors : Failed(i, e)
    \/ Stale(i)

\* (events the current state drops change nothing and are left out)
FetchLiveNext ==
  \/ UserActive /\ FetchIdle /\ UNCHANGED notFetch
  \/ UserActive /\ FetchCached /\ UNCHANGED notFetch
  \/ UserActive /\ FetchSuccess /\ UNCHANGED notFetch
  \/ \E ev \in {"RETRY", "FETCH"} :
        UserActive /\ RetryOrFetchError(ev) /\ UNCHANGED notFetch
  \/ UserActive /\ Cancel /\ UNCHANGED notFetch
  \/ UserActive /\ Reset /\ UNCHANGED notFetch
  \/ Settle /\ UNCHANGED notFetch
  \/ TimerFire /\ UNCHANGED notFetch
  \/ Tick /\ UNCHANGED notFetch

FetchLiveSpec ==
  /\ FetchSpecInit
  /\ [][FetchLiveNext]_vars
  /\ WF_vars(Settle /\ UNCHANGED notFetch)
  /\ WF_vars(TimerFire /\ UNCHANGED notFetch)
  /\ WF_vars(Tick /\ UNCHANGED notFetch)

\* ------------------------------------------------------------------------
\* Properties of the single-fetch machine (checked under FetchSpec)
\* ------------------------------------------------------------------------

\* number of invocations of the fetch operation recorded in a trace
Invokes(tr) == Cardinality({i \in DOMAIN tr : tr[i] = "loading"})

\* number of failures that led to an automatic retry recorded in a trace
Retried(tr) == Cardinality({i \in DOMAIN tr : tr[i] = "retrying"})

\* loading, retrying, ..., loading (j times loading/retrying), then last
Alternating(j, last) ==
  [i \in 1..(2 * j + 2) |->
     IF i = 2 * j + 2 THEN last
     ELSE IF i % 2 = 1 THEN "loading" ELSE "retrying"]

\* C1: in every reachable state context.retries is between 0 and maxRetries
\* inclusive.
C1_RetriesWithinBound == retries >= 0 /\ retries <= maxRetries

C1_Witness ==
  /\ state = "error"
  /\ lastEvent = "ERROR"
  /\ maxRetries >= 2
  /\ retries = maxRetries

\* C2: for every FETCH or RETRY that enters loading, also a FETCH that
\* follows a CANCEL, if every attempt fails and no user event intervenes,
\* the operation is invoked exactly maxRetries + 1 times before error.
C2_ExactlyKRetries ==
  (state = "error" /\ trace # <<>>) => Invokes(trace) = maxRetries + 1

\* C3: once a cache entry is stored at t0, a FETCH issued at t with
\* t - t0 < cacheTime is answered from the cache (state cached, data the
\* stored value, no invocation), and a FETCH at t - t0 >= cacheTime invokes
\* the fetch operation.
C3_CacheWindow ==
  [][(lastEvent' = "FETCH" /\ CachingEnabled(cacheTime) /\ cache.present) =>
       IF now - cache.timestamp < cacheTime
         THEN /\ state' = "cached"
              /\ data' = cache.data
              /\ actors' = actors
         ELSE /\ state' = "loading"
              /\ actors' # actors
              /\ actors'[curInv'] = "active"]_vars

\* C4: when a promise settles, its result changes state or context only if
\* it belongs to the invocation started by the current entry of loading; a
\* promise whose loading state was left by CANCEL changes nothing.
C4_StaleResultDiscarded ==
  [][\A i \in DOMAIN actors :
       (actors[i] # "none" /\ actors'[i] = "none") =>
          \/ i = curInv /\ state = "loading" /\ actors[i] = "active"
          \/ <<state, fetchCtx>>' = <<state, fetchCtx>>]_vars

C4_Witness ==
  /\ lastEvent = "STALE"
  /\ state = "loading"
  /\ actors[curInv] = "active"
  /\ data # NULL

\* C5: a RESET received in any state leaves the machine in idle with data,
\* error and cache absent, retries 0 and the configuration unchanged.
C5_ResetFromAnyState ==
  [][lastEvent' = "RESET" =>
       /\ state' = "idle"
       /\ data' = NULL
       /\ error' = NULL
       /\ retries' = 0
       /\ cache' = NoCache
       /\ <<maxRetries, retryDelay, cacheTime>>' =
            <<maxRetries, retryDelay, cacheTime>>]_vars

\* C9: if the fetch operation fails j <= maxRetries times and then succeeds
\* with no user event in between, the machine visits loading and retrying
\* alternately j times, then loading, then success, and ends with
\* retries = 0, data the successful result and error = null.
C9_FailThenSucceed ==
  /\ (state = "error" /\ trace # <<>>) => Retried(trace) + 1 > maxRetries
  /\ (state = "success" /\ trace # <<>>) =>
       /\ trace = Alternating(Retried(trace), "success")
       /\ retries = 0
       /\ data = lastOutput
       /\ error = NULL

\* C11: the machine never retries forever.  The fetch operation is invoked
\* at most maxRetries + 1 times in a cycle; once the user sends no more
\* events, with promises that settle and timers that fire (a timer due
\* after MaxTime never fires in the model), loading leads to success or
\* error; and error is left only by RETRY, FETCH or RESET.
C11_NeverRetriesForever ==
  /\ [](Invokes(trace) <= maxRetries + 1)
  /\ (~UserActive /\ state = "loading") ~>
        \/ state \in {"success", "error"}
        \/ state = "retrying" /\ timerDue > MaxTime
  /\ [][(state = "error" /\ state' # "error") =>
          lastEvent' \in {"RETRY", "FETCH", "RESET"}]_vars

C11_Witness ==
  /\ ~UserActive
  /\ state = "error"
  /\ lastEvent = "ERROR"
  /\ maxRetries >= 1
  /\ retryDelay >= 1
  /\ Invokes(trace) = maxRetries + 1

\* C12: a failed fetch operation, whether it leads to retrying or to error,
\* leaves context.data and the cache entry as they were.
C12_FailureKeepsDataAndCache ==
  [][lastEvent' = "ERROR" => (data' = data /\ cache' = cache)]_vars

C12_Witness ==
  /\ lastEvent = "ERROR"
  /\ state = "error"
  /\ data # NULL
  /\ cache.present

\* C15: cached is entered only by a FETCH in idle that finds a cache entry
\* with now - timestamp < cacheTime; a FETCH in idle with no entry or with
\* an entry of age >= cacheTime goes to loading and invokes the operation.
C15_CachedOnlyWhenFresh ==
  /\ [][(state' = "cached" /\ state # "cached") =>
          /\ state = "idle"
          /\ lastEvent' = "FETCH"
          /\ cache.present
          /\ now - cache.timestamp < cacheTime]_vars
  /\ [][(state = "idle" /\ lastEvent' = "FETCH" /\
           (~cache.present \/ now - cache.timestamp >= cacheTime)) =>
          /\ state' = "loading"
          /\ actors[curInv'] = "none"
          /\ actors'[curInv'] = "active"]_vars

\* an entry of age cacheTime - 1 has just been served from the cache
C15_Witness ==
  /\ state = "cached"
  /\ lastEvent = "FETCH"
  /\ cache.present
  /\ now - cache.timestamp = cacheTime - 1

\* C16: when the failure that exhausts the retries moves the machine to
\* error, retries is reset to 0: in every state error, retries = 0.
C16_ErrorHasZeroRetries == state = "error" => retries = 0

\* C17: when the fetch operation invoked by loading succeeds with any
\* value v, falsy values included, the machine moves to success with
\* data = v, error = null, retries = 0 and, if cacheTime > 0, the cache
\* entry {data: v, timestamp: now}.
C17_SuccessStoresResult ==
  lastEvent = "DONE" =>
    /\ state = "success"
    /\ data = lastOutput
    /\ error = NULL
    /\ retries = 0
    /\ cacheTime > 0 =>
         cache = [present |-> TRUE, data |-> lastOutput, timestamp |-> now]

\* C18: when the fetch operation invoked by loading fails, if
\* retries < maxRetries the machine increments retries by exactly 1 and
\* moves to retrying with error unchanged; otherwise it moves to error with
\* error set to the failure.  No failure leaves the machine in loading.
C18_FailureBranches ==
  [][lastEvent' = "ERROR" =>
       IF retries < maxRetries
         THEN /\ state' = "retrying"
              /\ retries' = retries + 1
              /\ error' = error
         ELSE /\ state' = "error"
              /\ error' = lastOutput'
              /\ error' \in Errors
              /\ retries' = retries]_vars

\* a failure led to retrying and left the error of an earlier cycle alone
C18_Witness ==
  /\ lastEvent = "ERROR"
  /\ state = "retrying"
  /\ error # NULL
  /\ error # lastOutput

\* C19: a cache entry is present only if cacheTime > 0.
C19_CacheOnlyWhenEnabled == cache.present => cacheTime > 0

\* a truthy result arrived with caching disabled and was not cached
C19_Witness ==
  /\ cacheTime = 0
  /\ lastEvent = "DONE"
  /\ Truthy(data)
  /\ ~cache.present

\* C20 as claimed: in cached, data is the data of the cache entry, error
\* is null and no fetch operation is in flight.
C20_CachedNothingInFlight ==
  state = "cached" =>
    /\ cache.present
    /\ data = cache.data
    /\ error = NULL
    /\ \A i \in DOMAIN actors : actors[i] = "none"

\* C20 as amended: in cached, data is the data of the cache entry, error
\* is null and no fetch operation whose result can still be applied is in
\* flight (the promise of a cancelled invocation may still be pending).
C20_CachedNothingActive ==
  state = "cached" =>
    /\ cache.present
    /\ data = cache.data
    /\ error = NULL
    /\ \A i \in DOMAIN actors : actors[i] # "active"

C20_Witness ==
  /\ state = "cached"
  /\ data \in Values
  /\ \E i \in DOMAIN actors : actors[i] = "stopped"

\* the step enters loading and invokes the fetch operation in a free slot
Invoked ==
  /\ state' = "loading"
  /\ actors[curInv'] = "none"
  /\ actors'[curInv'] = "active"

\* C21: a FETCH received in cached removes the cache entry and moves to
\* loading with a new invocation of the fetch operation, whatever the age
\* of the entry.
C21_FetchInCachedRevalidates ==
  [][(state = "cached" /\ lastEvent' = "FETCH") =>
       /\ cache.present
       /\ cache' = NoCache
       /\ Invoked]_vars

\* the entry served from the cache at time 0 was dropped by a FETCH at time
\* 0, inside its validity window
C21_Witness ==
  /\ state = "loading"
  /\ lastEvent = "FETCH"
  /\ transient = <<>>
  /\ cacheTime > 0
  /\ now = 0
  /\ ~cache.present
  /\ Truthy(data)
  /\ error = NULL

\* C22: a CANCEL or RESET received in retrying moves to idle and cancels
\* the pending retry timer; a timer is pending only in retrying, and idle
\* is left, and the fetch operation invoked from idle, only by a FETCH.
C22_CancelAbortsRetry ==
  /\ [](state # "retrying" => timerDue = NoTimer)
  /\ [][(state = "retrying" /\ lastEvent' \in {"CANCEL", "RESET"}) =>
          /\ state' = "idle"
          /\ timerDue' = NoTimer
          /\ actors' = actors]_vars
  /\ [][(state = "idle" /\
           (state' # "idle" \/
            \E i \in DOMAIN actors :
               actors[i] # "active" /\ actors'[i] = "active")) =>
          lastEvent' = "FETCH"]_vars

\* the machine is still idle after the due time of the cancelled timer
C22_Witness ==
  /\ state = "idle"
  /\ lastEvent = "TICK"
  /\ retryDelay > 0
  /\ cancelledDue # NoTimer
  /\ now > cancelledDue

\* C23: in error, RETRY and FETCH set retries to 0 and enter loading with a
\* new invocation, and a cycle entered with retries = 0 that ends in error
\* has invoked the operation maxRetries + 1 times; in success, FETCH enters
\* loading with a new invocation and RETRY changes nothing.
C23_ErrorRestartsFullCycle ==
  /\ [][(state = "error" /\ lastEvent' \in {"RETRY", "FETCH"}) =>
          /\ retries' = 0
          /\ cycleStart' = 0
          /\ trace' = <<"loading">>
          /\ Invoked]_vars
  /\ []((state = "error" /\ trace # <<>> /\ cycleStart = 0) =>
          Invokes(trace) = maxRetries + 1)
  /\ [][(state = "success" /\ lastEvent' = "FETCH") => Invoked]_vars
  /\ [][(state = "success" /\ lastEvent' = "RETRY") =>
          UNCHANGED <<state, fetchCtx, fetchEnv>>]_vars

\* a RETRY sent from error, where retries was maxRetries >= 1
C23_Witness ==
  /\ state = "loading"
  /\ lastEvent = "RETRY"
  /\ maxRetries >= 1
  /\ retries = 0
  /\ error # NULL

\* C24: CANCEL in loading or retrying moves to idle and leaves data, error,
\* retries and cache (and the configuration) unchanged; CANCEL in any other
\* state changes neither the state nor the context.
C24_CancelKeepsContext ==
  [][lastEvent' = "CANCEL" =>
       IF state \in {"loading", "retrying"}
         THEN state' = "idle" /\ UNCHANGED fetchCtx
         ELSE UNCHANGED <<state, fetchCtx>>]_vars

\* a CANCEL in retrying with every context field set
C24_Witness ==
  /\ state = "idle"
  /\ lastEvent = "CANCEL"
  /\ cancelledDue # NoTimer
  /\ retries >= 1
  /\ data # NULL
  /\ error # NULL
  /\ cache.present

\* C25: the timer set on entering retrying is due retryDelay * (retries + 1)
\* after the failure, retries being the count already incremented for that
\* failure; retrying returns to loading only once that time has come.
C25_DelayUsesIncrementedRetries ==
  /\ [][(lastEvent' = "ERROR" /\ state' = "retrying") =>
          /\ retries' = retries + 1
          /\ timerDue' = now + retryDelay * (retries' + 1)]_vars
  /\ [](state = "retrying" =>
          /\ delays # <<>>
          /\ delays[Len(delays)] = retryDelay * (retries + 1))
  /\ [][lastEvent' = "TIMER" =>
          /\ state = "retrying"
          /\ state' = "loading"
          /\ now >= timerDue]_vars

\* the retry after the first failure at time 0 started exactly
\* retryDelay * 2 later
C25_Witness ==
  /\ state = "loading"
  /\ lastEvent = "TIMER"
  /\ retryDelay > 0
  /\ retries = 1
  /\ now = retryDelay * 2

\* C26: a FETCH in idle passes through checkingCache iff cacheTime > 0;
\* with cacheTime = 0 the machine is never in cached nor passes through
\* checkingCache, and every FETCH in idle enters loading with a new
\* invocation.
C26_CacheCheckOnlyWhenEnabled ==
  /\ [][(state = "idle" /\ lastEvent' = "FETCH") =>
          (transient' = <<"checkingCache">> <=> cacheTime > 0)]_vars
  /\ [](cacheTime = 0 => (state # "cached" /\ transient = <<>>))
  /\ [][(cacheTime = 0 /\ state = "idle" /\ lastEvent' = "FETCH") =>
          Invoked]_vars

\* with caching disabled, a FETCH in idle after an earlier success and a
\* cancelled retry invoked the operation again
C26_Witness ==
  /\ cacheTime = 0
  /\ state = "loading"
  /\ lastEvent = "FETCH"
  /\ Truthy(data)
  /\ retries >= 1

\* C30: in error, context.error is non-null; error goes from non-null to
\* null only on a successful load, on entering cached or on RESET; RETRY
\* and FETCH sent from error leave it as it was.
C30_ErrorPersists ==
  /\ [](state = "error" => error # NULL)
  /\ [][(error # NULL /\ error' = NULL) =>
          \/ lastEvent' \in {"DONE", "RESET"}
          \/ state' = "cached"]_vars
  /\ [][(state = "error" /\ lastEvent' \in {"RETRY", "FETCH"}) =>
          error' = error]_vars

\* an automatic retry is running with the error of an earlier cycle
C30_Witness ==
  /\ state = "loading"
  /\ lastEvent = "TIMER"
  /\ cycleStart = 0
  /\ error \in Errors

\* C10 as claimed: in a cycle started with retries = 0 the delay before the
\* i-th automatic retry is retryDelay * i.
C10_DelayIsBaseTimesI ==
  cycleStart = 0 => \A i \in DOMAIN delays : delays[i] = retryDelay * i

\* C10 as amended: in a cycle started with retries = 0 the delay before the
\* i-th automatic retry is retryDelay * (i + 1), and the successive delays
\* are non-decreasing.
C10_DelayIsBaseTimesIPlusOne ==
  cycleStart = 0 =>
    /\ \A i \in DOMAIN delays : delays[i] = retryDelay * (i + 1)
    /\ \A i \in DOMAIN delays : i > 1 => delays[i - 1] <= delays[i]

C10_Witness ==
  /\ cycleStart = 0
  /\ state = "retrying"
  /\ retryDelay > 0
  /\ Len(delays) >= 2

\* ------------------------------------------------------------------------
\* Properties of the paginated machine (checked under PagedSpec)
\* ------------------------------------------------------------------------

\* C6: after every successful page load, hasMore is true iff the length of
\* the items accumulated so far is strictly less than the returned total.
C6_HasMoreIffBelowTotal ==
  pLastEvent = "DONE" => (hasMore <=> Len(items) < total)

\* C13: at most one page request is in flight: a request exists exactly
\* while the state is loading and is never replaced before it settles;
\* LOAD_MORE and LOAD_PAGE received in loading change neither the state nor
\* page, items, total, hasMore, and start no second invocation.
C13_OneRequestInFlight ==
  /\ [](pState = "loading" <=> request # NoRequest)
  /\ [][pState = "loading" =>
          \/ request' = request
          \/ pLastEvent' \in {"DONE", "ERROR"} /\ request' = NoRequest]_vars
  /\ [][(pState = "loading" /\ pLastEvent' \in {"LOAD_MORE", "LOAD_PAGE"}) =>
          UNCHANGED <<pState, page, items, total, hasMore, request>>]_vars

C13_Witness ==
  /\ pState = "loading"
  /\ pLastEvent = "LOAD_MORE"
  /\ reqVia = "LOAD_PAGE"
  /\ request.page = page
  /\ Len(items) > 0

\* C14: a RESET received in any state (idle, loading, error) leaves the
\* paginated machine in idle with items = [], total = 0, page = 1,
\* hasMore = true, error = null and loading = false.
C14_PagedResetFromAnyState ==
  [][pLastEvent' = "RESET" =>
       /\ pState' = "idle"
       /\ items' = <<>>
       /\ total' = 0
       /\ page' = 1
       /\ hasMore' = TRUE
       /\ pError' = NULL
       /\ loading' = FALSE]_vars

\* C7: on a successful page load items becomes the returned items when the
\* target page is 1 and the previous items followed by the returned items
\* otherwise; total becomes the returned total and the state idle.
C7_MergeOnSuccess ==
  [][pLastEvent' = "DONE" =>
       /\ items' = IF request.page = 1 THEN lastPage'.items
                                       ELSE items \o lastPage'.items
       /\ total' = lastPage'.total
       /\ pState' = "idle"]_vars

C7_Witness ==
  /\ pLastEvent = "DONE"
  /\ page > 1
  /\ Len(lastPage.items) > 0
  /\ Len(items) > Len(lastPage.items)
  /\ total = lastPage.total

\* C8: every accepted LOAD_MORE, in idle or in error and for every page,
\* leads on success to the previous items with the returned items appended.
C8_LoadMoreAppends ==
  [][(pLastEvent' = "DONE" /\ reqVia = "LOAD_MORE") =>
       items' = items \o lastPage'.items]_vars

C28_PageFailureKeepsItems ==
  [][pLastEvent' = "ERROR" =>
       /\ pState = "loading"
       /\ pState' = "error"
       /\ pError' \in Errors
       /\ pError' = pLastFailure'
       /\ loading' = FALSE
       /\ UNCHANGED <<items, total, hasMore>>]_vars

C28_Witness ==
  /\ pState = "error"
  /\ pLastEvent = "ERROR"
  /\ Len(items) > 0
  /\ total > 0
  /\ hasMore

\* s is a prefix of t
IsPrefix(s, t) == Len(s) <= Len(t) /\ SubSeq(t, 1, Len(s)) = s

\* C29: in every step the previous items is a prefix of the new items,
\* except a step that applies a successful load of page 1 or a RESET.
C29_ItemsAppendOnly ==
  [][\/ IsPrefix(items, items')
     \/ pLastEvent' = "DONE" /\ request.page = 1
     \/ pLastEvent' = "RESET"]_vars

\* a page loaded by LOAD_MORE was appended behind the earlier items
C29_Witness ==
  /\ pLastEvent = "DONE"
  /\ reqVia = "LOAD_MORE"
  /\ page > 1
  /\ Len(lastPage.items) > 0
  /\ Len(items) > Len(lastPage.items)
  /\ SubSeq(items, Len(items) - Len(lastPage.items) + 1, Len(items)) =
       lastPage.items


\* C31: after a page load succeeds, context.error is null.
C31_ErrorNullAfterSuccess == pLastEvent = "DONE" => pError = NULL

\* C32: the context flag loading is true iff the state is loading, which
\* is iff a page request is in flight.
C32_LoadingFlagIffLoading ==
  /\ loading <=> pState = "loading"
  /\ loading <=> request # NoRequest

\* a request started from error is in flight with the flag set
C32_Witness ==
  /\ pState = "loading"
  /\ loading
  /\ request.page = page
  /\ pError # NULL
  /\ Len(items) > 0

\* C33: a failure leaves page at the page that was requested; LOAD_MORE in
\* error enters loading with page unchanged and requests that page again
\* when hasMore is true, and changes nothing when hasMore is false.
C33_LoadMoreInErrorRetriesPage ==
  /\ [][pLastEvent' = "ERROR" => page' = request.page]_vars
  /\ [][(pState = "error" /\ pLastEvent' = "LOAD_MORE") =>
          IF hasMore
            THEN /\ pState' = "loading"
                 /\ page' = page
                 /\ request' = [page |-> page, limit |-> limit]
            ELSE UNCHANGED <<pState, pagedCtx, request>>]_vars

\* no page has arrived since the failure, and LOAD_MORE asks for the failed
\* page again
C33_Witness ==
  /\ pState = "loading"
  /\ pLastEvent = "LOAD_MORE"
  /\ pError # NULL
  /\ lastPage = NoPage
  /\ page > 1
  /\ request.page = page

\* C34: with a data set whose page p holds the one item p, no item occurs
\* twice in items: no page is accumulated twice.
C34_NoPageTwice ==
  \A i, j \in DOMAIN items : i # j => items[i] # items[j]

\* ------------------------------------------------------------------------
\* Properties of the debounce machine (checked under DebounceSpec)
\* ------------------------------------------------------------------------

\* C35: an UPDATE_VALUE received while debouncing restarts the timer:
\* debouncedValue changes only on a DEBOUNCED_UPDATE that arrives when the
\* delay (the one held in context when the last UPDATE_VALUE was received)
\* has elapsed since that UPDATE_VALUE, and it takes the most recent value;
\* no timer superseded by an UPDATE_VALUE stays pending, and in idle
\* debouncedValue equals value.
C35_DebounceRestarts ==
  /\ [](dState = "idle" => dDebounced = dValue /\ dTimers = {})
  /\ [](dState = "debouncing" =>
          dTimers = {[value |-> dValue, due |-> dUpdatedAt + dArmedDelay]})
  /\ [][dDebounced' # dDebounced =>
          /\ dLastEvent' = "DEBOUNCED_UPDATE"
          /\ dDebounced' = dValue
          /\ dNow - dUpdatedAt >= dArmedDelay]_vars
  /\ [][dLastEvent' = "DEBOUNCED_UPDATE" =>
          dState = "debouncing" /\ dState' = "idle" /\ dDebounced' = dValue]_vars

\* a DEBOUNCED_UPDATE has just delivered the value of the last of several
\* UPDATE_VALUEs, the earlier one carrying another value
C35_Witness ==
  /\ dState = "idle"
  /\ dLastEvent = "DEBOUNCED_UPDATE"
  /\ dSuperseded # {}
  /\ dDebounced \notin dSuperseded
  /\ dArmedDelay > 0
  /\ dDebounced = dValue

\* ------------------------------------------------------------------------
\* Properties of the search machine (checked under SearchSpec)
\* ------------------------------------------------------------------------

\* C36: the search function is never invoked with an empty query, and an
\* UPDATE_QUERY carrying the empty string leads, from whatever state, to
\* idle with results cleared.
C36_NeverSearchesEmpty ==
  /\ [](\A i \in DOMAIN sActors :
          sActors[i].status # "none" => sActors[i].query # "")
  /\ [][(sLastEvent' = "UPDATE_QUERY" /\ sQuery' = "") =>
          (sState' = "idle" /\ sResults' = <<>>)]_vars

\* C37: results of a search superseded by a later UPDATE_QUERY are never
\* applied: the only performSearch actor that can deliver is the one invoked
\* by the current searching state, it was invoked with the query held in
\* context, a done event stores its output beside that same query, and the
\* settling of a stopped actor changes nothing.
C37_SupersededNeverApplied ==
  /\ [](\A i \in DOMAIN sActors :
          sActors[i].status = "active" =>
            sState = "searching" /\ sActors[i].query = sQuery)
  /\ [][sLastEvent' = "DONE" =>
          sApplied' = sQuery /\ sQuery' = sQuery /\ sState' = "idle"]_vars
  /\ [][sLastEvent' = "STALE" => UNCHANGED <<sState, searchCtx>>]_vars
  /\ [][sResults' # sResults /\ sResults' # <<>> => sLastEvent' = "DONE"]_vars

\* a search has just delivered results for the current query while the
\* promise of an earlier search, superseded by an UPDATE_QUERY with another
\* query, has not settled yet
C37_Witness ==
  /\ sState = "idle"
  /\ sLastEvent = "DONE"
  /\ sResults # <<>>
  /\ sApplied = sQuery
  /\ \E i \in DOMAIN sActors :
        sActors[i].status = "stopped" /\ sActors[i].query # sQuery

\* ------------------------------------------------------------------------
\* Properties of the infinite-scroll machine (checked under ScrollSpec)
\* ------------------------------------------------------------------------

\* C38: hasMore is false exactly in completed and isLoading is true exactly
\* in loading; loading is entered only by LOAD_MORE from intersecting while
\* hasMore is true; completed is left only by RESET, so from the NO_MORE_DATA
\* that was taken until a RESET is taken the machine stays in completed and
\* no loading starts.
C38_ScrollFlags ==
  /\ [](~iHasMore <=> iState = "completed")
  /\ [](iIsLoading <=> iState = "loading")
  /\ [](iNoMore => iState = "completed")
  /\ [][(iState' = "loading" /\ iState # "loading") =>
          (iLastEvent' = "LOAD_MORE" /\ iState = "intersecting" /\ iHasMore)]_vars
  /\ [][(iState = "completed" /\ iState' # "completed") =>
          (iLastEvent' = "RESET" /\ iState' = "idle")]_vars
  /\ [][(iNoMore /\ iLastEvent' # "RESET") => iState' = "completed"]_vars

\* after a NO_MORE_DATA taken in loading the machine sits in completed, the
\* sentinel still intersecting, and has just dropped a LOAD_MORE
C38_Witness ==
  /\ iState = "completed"
  /\ iNoMore
  /\ ~iHasMore
  /\ ~iIsLoading
  /\ iIsIntersecting
  /\ iLastEvent = "LOAD_MORE"

====
